---------------------------- MODULE Spec2Model ----------------------------
(***************************************************************************)
(* Model of four parts of the repository:                                  *)
(*   - the generic backtracking solver with its Sudoku functors            *)
(*     (Assignment 08 (Backtracking)/functions.h);                         *)
(*   - the adversarial search over Tic-Tac-Toe grids, minimax and          *)
(*     alpha-beta (Assignment 09 (Adversarial Search)/functions.h);        *)
(*   - the tree and its stream operators                                   *)
(*     (Assignment 01 (Tree)/functions.h);                                 *)
(*   - the Bellman-Ford search                                             *)
(*     (Assignment 5 (Bellman-Ford's Search)/functions.h).                 *)
(* Each part has its own specification; the variables of the other parts   *)
(* stay at their initial value.                                            *)
(***************************************************************************)
EXTENDS Integers, Sequences, FiniteSets, TLC

VARIABLES
    kind,    \* "1D" or "2D": which pair of functors the solver is built with
    map,     \* the map the functors point to: [base, size] or [base, width, height]
    orig,    \* map.base as the caller handed it over (history)
    stack,   \* Backtracking::stack, top at the end
    pc,      \* "idle", "running" (inside run()'s loop), "returned", "called", "located"
    ret,     \* what the last call of solve() returned
    runs,    \* how many times run() was entered (history)
    nc,      \* the last call of next_candidate: [called, pre, index, val]
    nl,      \* the last call of next_location by the caller: [called, pre, loc]
    grid,        \* the Grid the search is called on
    player,      \* the player to move in grid
    maximizer,   \* the maximizing player's mark
    minimizer,   \* the minimizing player's mark
    alpha,       \* the alpha the alpha-beta call is entered with
    beta,        \* the beta the alpha-beta call is entered with
    mm,          \* the node minimax returned on these arguments, or NoMove
    ab,          \* the node alpha_beta_pruning_all_branches returned, or NoMove
    inGame,       \* grid was reached from the empty grid by alternating moves
    dummy,       \* the static Move dummy of Move::at, NoMove until constructed
    atRes,       \* the last call of Move::at: [called, on, i, ref]
    tree,        \* the nodes of the tree that is written, root first
    text,        \* the characters operator<< put on the stream
    target,      \* the nodes reached from the Node operator>> read into
    tpc,         \* "built", "written", "read"
    matrix,      \* BellmanFord: the cost matrix, row by row
    distance,    \* BellmanFord::distance
    predecessor, \* BellmanFord::predecessor
    starting,    \* the argument of the last run()
    bfRet,       \* what the last run() returned
    path,        \* the last getPath(): [target, nodes, returns]
    bpc          \* "built", "ran", "asked"

sudokuVars == <<kind, map, orig, stack, pc, ret, runs, nc, nl>>

gameVars ==
    <<grid, player, maximizer, minimizer, alpha, beta, mm, ab, inGame, dummy,
      atRes>>

treeVars == <<tree, text, target, tpc>>

bfVars == <<matrix, distance, predecessor, starting, bfRet, path, bpc>>

vars == <<sudokuVars, gameVars, treeVars, bfVars>>

\* ------------------------------------------------------------------ bounds

\* The largest value a cell may take: "val <= 9" in both candidate functors.
MaxVal == 9

\* The side of a Sudoku box: "row / 3 * 3" and the 3 x 3 scan of the box.
BoxSide == 3

\* The 2-D maps of the model are BoxCols boxes wide and BoxRows boxes high.
BoxCols == 2

BoxRows == 2

\* At most this many cells of an input map are blanked.
MaxEmpty == 3

\* The 1-D maps with arbitrary content have 1..MaxSize1D cells.
MaxSize1D == 3

\* run() is entered at most this many times on one solver.
MaxRuns == 2

\* The searches are called on grids with at most MaxOpen empty squares.
MaxOpen == 5

\* The grids that are no position of a game have at most MaxArbOpen empty
\* squares.
MaxArbOpen == 1

\* <limits.h>
INT_MAX == 2147483647

INT_MIN == -2147483647 - 1

\* ------------------------------------------------------- Location (data.h)

\* AI::Location<>{ base, index }; base is nullptr in the not-found location.
Location(b, i) == [base |-> b, index |-> i]

notFound(loc) == loc.base = "nullptr"

getIndex(loc) == loc.index

\* Location::clearValue(): the cell the location refers to is set to 0.
clearValue(m, loc) == [m EXCEPT !.base[loc.index] = 0]

\* ------------------------------------------------------------- functors

Min(S) == CHOOSE x \in S : \A y \in S : x <= y

\* NextLocation_Sudoku1D with the scan stopped one cell early.
NextLocation_Sudoku1D_SkipLast(m) ==
    LET zeros == {i \in 0..(m.size - 2) : m.base[i] = 0}
    IN  IF zeros # {} THEN Location("base", Min(zeros))
        ELSE Location("nullptr", 0)

NextLocation_Sudoku1D(m) ==
    LET zeros == {i \in 0..(m.size - 1) : m.base[i] = 0}
    IN  IF zeros # {} THEN Location("base", Min(zeros))
        ELSE Location("nullptr", 0)

\* NextLocation_Sudoku2D with the two loops exchanged: column by column.
NextLocation_Sudoku2D_ColumnMajor(m) ==
    LET zeros == {k \in DOMAIN m.base : m.base[k] = 0}
        key(k) == (k % m.width) * m.height + (k \div m.width)
    IN  IF zeros # {}
        THEN Location("base", CHOOSE k \in zeros : \A z \in zeros : key(k) <= key(z))
        ELSE Location("nullptr", 0)

\* The scan is row by row (j outer, i inner); index = j * width + i.
NextLocation_Sudoku2D(m) ==
    LET zeros == {j * m.width + i : j \in 0..(m.height - 1), i \in 0..(m.width - 1)}
                     \cap {k \in DOMAIN m.base : m.base[k] = 0}
    IN  IF zeros # {} THEN Location("base", Min(zeros))
        ELSE Location("nullptr", 0)

\* Exists1D with the scan of the array started at the second cell.
Exists1D_SkipFirst(m, val) == \E i \in 1..(m.size - 1) : m.base[i] = val

\* "exists" of the 1-D functor: val is in some cell of the whole array.
Exists1D(m, val) == \E i \in 0..(m.size - 1) : m.base[i] = val

\* NextCandidate_Sudoku1D with the scan of the values started at 1 instead of
\* above the value the cell holds.
NextCandidate_Sudoku1D_FromOne(m, location) ==
    LET index == getIndex(location)
        ok    == {val \in 1..MaxVal : ~Exists1D(m, val)}
    IN  IF ok # {}
        THEN [val |-> Min(ok), map |-> [m EXCEPT !.base[index] = Min(ok)]]
        ELSE [val |-> 0, map |-> [m EXCEPT !.base[index] = 0]]

NextCandidate_Sudoku1D(m, location) ==
    LET index == getIndex(location)
        ok    == {val \in (m.base[index] + 1)..MaxVal : ~Exists1D(m, val)}
    IN  IF ok # {}
        THEN [val |-> Min(ok), map |-> [m EXCEPT !.base[index] = Min(ok)]]
        ELSE [val |-> 0, map |-> [m EXCEPT !.base[index] = 0]]

RowHas(m, row, val) == \E i \in 0..(m.width - 1) : m.base[row * m.width + i] = val

\* ColHas with the scan stopped after the first row of the grid.
ColHas_FirstRow(m, col, val) == m.base[col] = val

ColHas(m, col, val) == \E j \in 0..(m.height - 1) : m.base[j * m.width + col] = val

BoxHas(m, row, col, val) ==
    LET box_row == (row \div BoxSide) * BoxSide
        box_col == (col \div BoxSide) * BoxSide
    IN  \E j \in 0..(BoxSide - 1), i \in 0..(BoxSide - 1) :
            m.base[(box_row + j) * m.width + (box_col + i)] = val

\* Exists2D without the scan of the box.
Exists2D_NoBox(m, index, val) ==
    LET row == index \div m.width
        col == index % m.width
    IN  RowHas(m, row, val) \/ ColHas(m, col, val)

\* "exists" of the 2-D functor: row, then column, then box.
Exists2D(m, index, val) ==
    LET row == index \div m.width
        col == index % m.width
    IN  RowHas(m, row, val) \/ ColHas(m, col, val) \/ BoxHas(m, row, col, val)

\* NextCandidate_Sudoku2D with the scan of the values started at 1 instead of
\* above the value the cell holds.
NextCandidate_Sudoku2D_FromOne(m, location) ==
    LET index == getIndex(location)
        ok    == {val \in 1..MaxVal : ~Exists2D(m, index, val)}
    IN  IF ok # {}
        THEN [val |-> Min(ok), map |-> [m EXCEPT !.base[index] = Min(ok)]]
        ELSE [val |-> 0, map |-> [m EXCEPT !.base[index] = 0]]

NextCandidate_Sudoku2D(m, location) ==
    LET index == getIndex(location)
        ok    == {val \in (m.base[index] + 1)..MaxVal : ~Exists2D(m, index, val)}
    IN  IF ok # {}
        THEN [val |-> Min(ok), map |-> [m EXCEPT !.base[index] = Min(ok)]]
        ELSE [val |-> 0, map |-> [m EXCEPT !.base[index] = 0]]

\* The template parameters NL and NC of Backtracking<NL, NC>.
next_location(k, m) ==
    IF k = "1D" THEN NextLocation_Sudoku1D(m) ELSE NextLocation_Sudoku2D(m)

\* next_candidate that tries the values from the largest down and stops at
\* the first one that is not in the way.
next_candidate_Largest(k, m, location) ==
    LET index == getIndex(location)
        ok    == {val \in (m.base[index] + 1)..MaxVal :
                    IF k = "1D" THEN ~Exists1D(m, val) ELSE ~Exists2D(m, index, val)}
    IN  IF ok # {}
        THEN LET top == CHOOSE v \in ok : \A w \in ok : w <= v
             IN  [val |-> top, map |-> [m EXCEPT !.base[index] = top]]
        ELSE [val |-> 0, map |-> [m EXCEPT !.base[index] = 0]]

next_candidate(k, m, location) ==
    IF k = "1D" THEN NextCandidate_Sudoku1D(m, location)
    ELSE NextCandidate_Sudoku2D(m, location)

\* ------------------------------------------------------------------ Grid

\* Grid::x, Grid::o and Grid::_
X == "x"

O == "o"

Blank == " "

Squares == 0..8

\* Grid(): all nine squares empty.
EmptyGrid == [i \in Squares |-> Blank]

\* set that writes the mark x whatever mark it is handed.
set_AlwaysX(g, i, c) == [g EXCEPT ![i] = X]

\* Grid::set(i, c) on a copy of g.
set(g, i, c) == [g EXCEPT ![i] = c]

\* Grid::emptyIndices(): the indices of the empty squares, ascending.
RECURSIVE emptyFrom(_, _)
emptyFrom(g, i) ==
    IF i >= 9 THEN <<>>
    ELSE IF g[i] = Blank THEN <<i>> \o emptyFrom(g, i + 1)
    ELSE emptyFrom(g, i + 1)

emptyIndices(g) == emptyFrom(g, 0)

\* winning without the anti-diagonal.
winning_NoAntiDiagonal(g, p) ==
    \/ \E row \in 0..2 :
          g[row * 3] = p /\ g[row * 3 + 1] = p /\ g[row * 3 + 2] = p
    \/ \E col \in 0..2 : g[col] = p /\ g[col + 3] = p /\ g[col + 6] = p
    \/ (g[0] = p /\ g[4] = p /\ g[8] = p)

\* Grid::winning(player): rows, columns, main diagonal, anti-diagonal.
winning(g, p) ==
    \/ \E row \in 0..2 :
          g[row * 3] = p /\ g[row * 3 + 1] = p /\ g[row * 3 + 2] = p
    \/ \E col \in 0..2 : g[col] = p /\ g[col + 3] = p /\ g[col + 6] = p
    \/ (g[0] = p /\ g[4] = p /\ g[8] = p)
    \/ (g[2] = p /\ g[4] = p /\ g[6] = p)

\* ------------------------------------------------------------------ Move

\* A node of the game tree as the search returns it. Its children are held
\* one level deep: a child is the record View makes of the node the
\* recursive call returned (what operator<< prints of a Move, and spotIndex),
\* with the arguments of that call beside it; the child's own children are
\* the value of the search on the child's arguments.
Move(g, score, next, bestMove) ==
    [grid |-> g, score |-> score, next |-> next, bestMove |-> bestMove,
     spotIndex |-> -1]

\* args: [recursed, player, alpha, beta], the recursive call that made the
\* child; recursed is FALSE for a node that no call made.
View(m, args) ==
    [grid |-> m.grid, score |-> m.score, size |-> Len(m.next),
     bestMove |-> m.bestMove, spotIndex |-> m.spotIndex, args |-> args]

\* setSpotIndex that leaves the node as it is.
setSpotIndex_Ignored(m, i) == m

setSpotIndex(m, i) == [m EXCEPT !.spotIndex = i]

\* getScore with the sign turned.
getScore_Negated(m) == 0 - m.score

getScore(m) == m.score

NoMove == [score |-> 0, next |-> <<>>, bestMove |-> -2, spotIndex |-> -2]

\* Move(): all arguments defaulted.
DefaultMove == Move(EmptyGrid, 0, <<>>, -1)

\* at with the upper test "i <= next->size()".
at_OffByOne(m, i) ==
    IF i >= 0 /\ i <= Len(m.next)
    THEN [to |-> "child", k |-> i]
    ELSE [to |-> "dummy", k |-> 0]

\* Move::at(i): what the returned reference refers to, the child at
\* position i of next or the static dummy.
at(m, i) ==
    IF i >= 0 /\ i < Len(m.next)
    THEN [to |-> "child", k |-> i]
    ELSE [to |-> "dummy", k |-> 0]

NoAt == [called |-> FALSE, on |-> "mm", i |-> 0, ref |-> [to |-> "dummy", k |-> 0]]

Max2(a, b) == IF a > b THEN a ELSE b

Min2(a, b) == IF a < b THEN a ELSE b

\* improves with ">" on both plies: the minimizer maximizes too.
improves_AlwaysGreater(p, mx, childScore, bestScore) == childScore > bestScore

\* improves with ">=" and "<=": the last of several equal children wins.
improves_OrEqual(p, mx, childScore, bestScore) ==
    IF p = mx THEN childScore >= bestScore ELSE childScore <= bestScore

\* "childScore > bestScore" on the maximizer's ply, "<" on the minimizer's.
improves(p, mx, childScore, bestScore) ==
    IF p = mx THEN childScore > bestScore ELSE childScore < bestScore

\* cutoff that prunes whatever the window: only the first child is searched.
cutoff_Always(a, b) == TRUE

\* cutoff that already prunes when the bounds are one score step apart.
cutoff_Eager(a, b) == a + 10 >= b

\* cutoff with the comparison turned round.
cutoff_Reversed(a, b) == a <= b

\* "if (alpha >= beta)" on the maximizer's ply, "if (beta <= alpha)" on the
\* minimizer's: the rest of the siblings is pruned.
cutoff(a, b) == a >= b

\* prunedScore that takes the bounds the search starts from.
prunedScore_Unbounded(p, mx, a, b) == IF p = mx THEN INT_MIN ELSE INT_MAX

\* prunedScore with the two bounds exchanged.
prunedScore_Swapped(p, mx, a, b) == IF p = mx THEN b ELSE a

\* The score of a node standing for a pruned branch.
prunedScore(p, mx, a, b) == IF p = mx THEN a ELSE b

\* attachPruned that drops the node: a pruned branch leaves no child.
attachPruned_Dropped(nextMoves, child) == nextMoves

\* The node standing for a pruned branch is attached like any child.
attachPruned(nextMoves, child) == Append(nextMoves, child)

\* --------------------------------------------------------------- minimax

RECURSIVE minimax(_, _, _, _)
minimax(g, p, mx, mn) ==
    IF winning(g, mx) THEN Move(g, 10, <<>>, -1)
    ELSE IF winning(g, mn) THEN Move(g, -10, <<>>, -1)
    ELSE
    LET empties == emptyIndices(g)
        opp     == IF p = mx THEN mn ELSE mx
        RECURSIVE loop(_, _, _, _)
        loop(idx, nextMoves, bestScore, bestMoveIdx) ==
            IF idx >= Len(empties)
            THEN Move(g, bestScore, nextMoves, bestMoveIdx)
            ELSE LET spot    == empties[idx + 1]
                     newGrid == set(g, spot, p)
                     child   == setSpotIndex(minimax(newGrid, opp, mx, mn), spot)
                     pushed  == Append(nextMoves,
                                       View(child, [recursed |-> TRUE, player |-> opp,
                                                    alpha |-> INT_MIN, beta |-> INT_MAX]))
                 IN  IF improves(p, mx, getScore(child), bestScore)
                     THEN loop(idx + 1, pushed, getScore(child), idx)
                     ELSE loop(idx + 1, pushed, bestScore, bestMoveIdx)
    IN  IF empties = <<>> THEN Move(g, 0, <<>>, -1)
        ELSE loop(0, <<>>, IF p = mx THEN INT_MIN ELSE INT_MAX, 0)

\* ------------------------------------------------------------- alpha-beta

RECURSIVE alpha_beta_pruning_all_branches(_, _, _, _, _, _)
alpha_beta_pruning_all_branches(g, p, mx, mn, alpha0, beta0) ==
    IF winning(g, mx) THEN Move(g, 10, <<>>, -1)
    ELSE IF winning(g, mn) THEN Move(g, -10, <<>>, -1)
    ELSE
    LET empties == emptyIndices(g)
        opp     == IF p = mx THEN mn ELSE mx
        RECURSIVE loop(_, _, _, _, _, _, _)
        loop(idx, nextMoves, bestScore, bestMoveIdx, a, b, pruned) ==
            IF idx >= Len(empties)
            THEN Move(g, bestScore, nextMoves, bestMoveIdx)
            ELSE
            LET spot    == empties[idx + 1]
                newGrid == set(g, spot, p)
            IN  IF ~pruned
                THEN \* only recurse if not yet pruned
                     LET child  == setSpotIndex(
                                     alpha_beta_pruning_all_branches(
                                         newGrid, opp, mx, mn, a, b), spot)
                         better == improves(p, mx, getScore(child), bestScore)
                         best   == IF better THEN getScore(child) ELSE bestScore
                         a2     == IF p = mx THEN Max2(a, best) ELSE a
                         b2     == IF p = mx THEN b ELSE Min2(b, best)
                     IN  loop(idx + 1,
                              Append(nextMoves,
                                     View(child, [recursed |-> TRUE, player |-> opp,
                                                  alpha |-> a, beta |-> b])),
                              best,
                              IF better THEN idx ELSE bestMoveIdx,
                              a2, b2, cutoff(a2, b2))
                ELSE \* a node standing for a pruned branch
                     LET child == setSpotIndex(
                                    Move(newGrid, prunedScore(p, mx, a, b), <<>>, -1),
                                    spot)
                     IN  loop(idx + 1,
                              attachPruned(nextMoves,
                                     View(child, [recursed |-> FALSE, player |-> opp,
                                                  alpha |-> a, beta |-> b])),
                              bestScore, bestMoveIdx, a, b, pruned)
    IN  IF empties = <<>> THEN Move(g, 0, <<>>, -1)
        ELSE loop(0, <<>>, IF p = mx THEN INT_MIN ELSE INT_MAX, 0,
                  alpha0, beta0, FALSE)

\* ------------------------------------------------------------ game inputs

Other(c) == IF c = X THEN O ELSE X

NumOpen(g) == Cardinality({i \in Squares : g[i] = Blank})

Finished(g) == winning(g, X) \/ winning(g, O) \/ NumOpen(g) = 0

GameIdle ==
    /\ grid = EmptyGrid
    /\ player = X
    /\ maximizer = X
    /\ minimizer = O
    /\ alpha = INT_MIN
    /\ beta = INT_MAX
    /\ mm = NoMove
    /\ ab = NoMove
    /\ inGame = TRUE
    /\ dummy = NoMove
    /\ atRes = NoAt

SudokuIdle ==
    /\ kind = "1D"
    /\ map = [base |-> <<>>, size |-> 0]
    /\ orig = <<>>
    /\ stack = <<>>
    /\ pc = "idle"
    /\ ret = TRUE
    /\ runs = 0
    /\ nc = [called |-> FALSE, pre |-> <<>>, index |-> 0, val |-> 0]
    /\ nl = [called |-> FALSE, pre |-> <<>>, loc |-> Location("nullptr", 0)]

\* No tree, nothing written, nothing read.
TreeIdle ==
    /\ tree = <<>>
    /\ text = <<>>
    /\ target = <<>>
    /\ tpc = "built"

\* No graph: a solver that nothing was asked of.
BellmanFordIdle ==
    /\ matrix = <<>>
    /\ distance = <<>>
    /\ predecessor = <<>>
    /\ starting = 0
    /\ bfRet = TRUE
    /\ path = [target |-> 0, nodes |-> <<>>, returns |-> TRUE]
    /\ bpc = "built"

\* The start of a game, x to move, either mark the maximizer's; or any grid
\* at all with few empty squares, either mark to move, x the maximizer's.
\* (Exchanging the two marks everywhere maps each remaining choice of
\* arguments onto one of these.)
InitGame ==
    /\ SudokuIdle
    /\ TreeIdle
    /\ BellmanFordIdle
    /\ \/ /\ grid = EmptyGrid
          /\ player = X
          /\ maximizer \in {X, O}
          /\ inGame = TRUE
       \/ /\ grid \in {g \in [Squares -> {X, O, Blank}] : NumOpen(g) <= MaxArbOpen}
          /\ player \in {X, O}
          /\ maximizer = X
          /\ inGame = FALSE
    /\ minimizer = Other(maximizer)
    /\ alpha = INT_MIN
    /\ beta = INT_MAX
    /\ mm = NoMove
    /\ ab = NoMove
    /\ dummy = NoMove
    /\ atRes = NoAt

\* ----------------------------------------------------------- game actions

\* The player to move takes an empty square of an unfinished game: the next
\* position the searches are called on.
PlayMove ==
    /\ mm = NoMove
    /\ ~Finished(grid)
    /\ \E i \in Squares :
         /\ grid[i] = Blank
         /\ grid' = set(grid, i, player)
    /\ player' = Other(player)
    /\ alpha' = INT_MIN
    /\ beta' = INT_MAX
    /\ mm' = NoMove
    /\ ab' = NoMove
    /\ UNCHANGED <<maximizer, minimizer, inGame, dummy, atRes>>
    /\ UNCHANGED <<sudokuVars, treeVars, bfVars>>

CallMinimax ==
    /\ mm = NoMove
    /\ NumOpen(grid) <= MaxOpen
    /\ mm' = minimax(grid, player, maximizer, minimizer)
    /\ UNCHANGED <<grid, player, maximizer, minimizer, alpha, beta, ab, inGame,
                   dummy, atRes>>
    /\ UNCHANGED <<sudokuVars, treeVars, bfVars>>

CallAlphaBeta ==
    /\ mm # NoMove
    /\ ab = NoMove
    /\ ab' = alpha_beta_pruning_all_branches(grid, player, maximizer, minimizer,
                                             alpha, beta)
    /\ UNCHANGED <<grid, player, maximizer, minimizer, alpha, beta, mm, inGame,
                   dummy, atRes>>
    /\ UNCHANGED <<sudokuVars, treeVars, bfVars>>

\* The recursive call of alpha_beta_pruning_all_branches that made the k-th
\* child of the node: its grid, player to move and window.
Descend ==
    /\ ab # NoMove
    /\ \E k \in 1..Len(ab.next) :
         /\ ab.next[k].args.recursed
         /\ grid' = ab.next[k].grid
         /\ player' = ab.next[k].args.player
         /\ alpha' = ab.next[k].args.alpha
         /\ beta' = ab.next[k].args.beta
    /\ mm' = NoMove
    /\ ab' = NoMove
    /\ UNCHANGED <<maximizer, minimizer, inGame, dummy, atRes>>
    /\ UNCHANGED <<sudokuVars, treeVars, bfVars>>

NextGame == PlayMove \/ CallMinimax \/ CallAlphaBeta \/ Descend

SpecGame == InitGame /\ [][NextGame]_vars

\* minimax called on the empty grid, x to move, x the maximizer's mark.
CallMinimaxOpening ==
    /\ grid = EmptyGrid
    /\ player = X
    /\ maximizer = X
    /\ mm = NoMove
    /\ mm' = minimax(grid, player, maximizer, minimizer)
    /\ UNCHANGED <<grid, player, maximizer, minimizer, alpha, beta, ab, inGame,
                   dummy, atRes>>
    /\ UNCHANGED <<sudokuVars, treeVars, bfVars>>

\* A game from the empty grid with x the maximizer's mark; minimax is called
\* at the start and on the later positions.
InitOpening == SudokuIdle /\ GameIdle /\ TreeIdle /\ BellmanFordIdle

NextOpening == CallMinimaxOpening \/ PlayMove \/ CallMinimax

SpecOpening == InitOpening /\ [][NextOpening]_vars

\* at(i) is called on the node minimax returned or on the node alpha-beta
\* returned, with an index from one below the range to one above it. The
\* static dummy is constructed when control first passes its declaration.
CallAt ==
    /\ ab # NoMove
    /\ \E on \in {"mm", "ab"} :
         LET m == IF on = "mm" THEN mm ELSE ab
         IN  \E i \in -1..(Len(m.next) + 1) :
                /\ atRes' = [called |-> TRUE, on |-> on, i |-> i, ref |-> at(m, i)]
                /\ dummy' = IF at(m, i).to = "dummy" /\ dummy = NoMove
                             THEN DefaultMove ELSE dummy
    /\ UNCHANGED <<grid, player, maximizer, minimizer, alpha, beta, mm, ab, inGame>>
    /\ UNCHANGED <<sudokuVars, treeVars, bfVars>>

\* Both searches are called on positions of a game and on arbitrary grids, and
\* at is called on the nodes they return.
NextAt == PlayMove \/ CallMinimax \/ CallAlphaBeta \/ CallAt

SpecAt == InitGame /\ [][NextAt]_vars

\* ------------------------------------------------------------ input maps

Width == BoxSide * BoxCols

Height == BoxSide * BoxRows

\* A complete valid grid: the classic shifted pattern, cut to Width x Height.
Pattern(r, c) == (((r % BoxSide) * BoxSide + (r \div BoxSide) + c) % MaxVal) + 1

\* The cells an input map may differ from the pattern in: cells of the first
\* two boxes of the top band (two of them in one column of the second box,
\* where the smallest free value of the upper one is the only value of the
\* lower one), and a cell of a lower box.
Window2D ==
    {0, 1, BoxSide, Width, Width + BoxSide, 2 * Width + BoxSide,
     BoxSide * Width}

SubsetsUpTo(S, n) == {E \in SUBSET S : Cardinality(E) <= n}

\* The pattern with the cells of E blanked and cell p (if any) holding v.
Grid2D(E, p, v) ==
    [base   |-> [k \in 0..(Width * Height - 1) |->
                    IF k \in E THEN 0
                    ELSE IF k = p THEN v
                    ELSE Pattern(k \div Width, k % Width)],
     width  |-> Width,
     height |-> Height]

\* 1..MaxVal in order and then again from 1: MaxVal + 1 cells, one value twice.
Line1D(E) ==
    [base |-> [i \in 0..MaxVal |-> IF i \in E THEN 0 ELSE (i % MaxVal) + 1],
     size |-> MaxVal + 1]

NoCall == [called |-> FALSE, pre |-> <<>>, index |-> 0, val |-> 0]

InitRest ==
    /\ orig = map.base
    /\ stack = <<>>
    /\ pc = "idle"
    /\ ret = TRUE
    /\ runs = 0
    /\ nc = NoCall
    /\ nl = [called |-> FALSE, pre |-> <<>>, loc |-> Location("nullptr", 0)]

Init2D ==
    /\ kind = "2D"
    /\ \E E \in SubsetsUpTo(Window2D, MaxEmpty) :
         \E p \in (Window2D \ E) \cup {-1} :
           \E v \in 1..MaxVal :
             /\ (p = -1 => v = 1)
             /\ map = Grid2D(E, p, v)
    /\ InitRest

Init1D ==
    /\ kind = "1D"
    /\ \/ \E n \in 1..MaxSize1D :
            \E b \in [0..(n - 1) -> 0..MaxVal] : map = [base |-> b, size |-> n]
       \/ \E E \in SubsetsUpTo(0..MaxVal, MaxEmpty) : map = Line1D(E)
    /\ InitRest

InitSudoku == (Init2D \/ Init1D) /\ GameIdle /\ TreeIdle /\ BellmanFordIdle

\* -------------------------------------------------------------- Backtracking

\* run() is entered.
Run ==
    /\ pc \in {"idle", "returned"}
    /\ runs < MaxRuns
    /\ pc' = "running"
    /\ runs' = runs + 1
    /\ UNCHANGED <<kind, map, orig, stack, ret, nc, nl>>
    /\ UNCHANGED <<gameVars, treeVars, bfVars>>

\* push that overwrites the top of a stack that is not empty.
push_ReplaceTop(stk, loc) ==
    IF stk = <<>> THEN <<loc>> ELSE [stk EXCEPT ![Len(stk)] = loc]

\* std::stack::push
push(stk, loc) == Append(stk, loc)

\* pop that leaves the stack as it is.
pop_None(stk) == stk

\* pop that takes the oldest entry, as a queue does.
pop_Bottom(stk) == SubSeq(stk, 2, Len(stk))

\* std::stack::pop
pop(stk) == SubSeq(stk, 1, Len(stk) - 1)

\* solve(): the values it returns and leaves behind, and the call of
\* next_candidate it made (called = FALSE when it made none).
solve(k, m, stk0) ==
    LET loc == next_location(k, m)
    IN  IF stk0 = <<>> /\ notFound(loc)
        THEN \* nothing to solve
             [ret |-> FALSE, map |-> m, stack |-> stk0, called |-> FALSE,
              index |-> 0, val |-> 0]
        ELSE LET stk     == IF stk0 = <<>> THEN push(stk0, loc) ELSE stk0
                 current == stk[Len(stk)]
                 r       == next_candidate(k, m, current)
                 next    == next_location(k, r.map)
             IN  IF r.val = 0
                 THEN \* undo current, backtrack
                      [ret |-> TRUE, map |-> clearValue(r.map, current),
                       stack |-> pop(stk), called |-> TRUE,
                       index |-> getIndex(current), val |-> r.val]
                 ELSE IF notFound(next)
                 THEN \* puzzle complete
                      [ret |-> FALSE, map |-> r.map, stack |-> stk,
                       called |-> TRUE, index |-> getIndex(current), val |-> r.val]
                 ELSE \* explore next
                      [ret |-> TRUE, map |-> r.map, stack |-> push(stk, next),
                       called |-> TRUE, index |-> getIndex(current), val |-> r.val]

\* One call of solve() from run()'s loop "while (solve());".
Solve ==
    /\ pc = "running"
    /\ LET s == solve(kind, map, stack)
       IN  /\ map' = s.map
           /\ stack' = s.stack
           /\ ret' = s.ret
           /\ pc' = IF s.ret THEN "running" ELSE "returned"
           /\ nc' = IF s.called
                    THEN [called |-> TRUE, pre |-> map.base, index |-> s.index,
                          val |-> s.val]
                    ELSE nc
    /\ UNCHANGED <<kind, orig, runs, nl>>
    /\ UNCHANGED <<gameVars, treeVars, bfVars>>

\* The caller applies the candidate functor to a location of its own choice.
CallNextCandidate ==
    /\ pc = "idle"
    /\ \E i \in DOMAIN map.base :
         LET r == next_candidate(kind, map, Location("base", i))
         IN  /\ map' = r.map
             /\ nc' = [called |-> TRUE, pre |-> map.base, index |-> i, val |-> r.val]
    /\ pc' = "called"
    /\ UNCHANGED <<kind, orig, stack, ret, runs, nl>>
    /\ UNCHANGED <<gameVars, treeVars, bfVars>>

\* The caller applies the location functor, before a run or after one.
CallNextLocation ==
    /\ pc \in {"idle", "returned"}
    /\ nl' = [called |-> TRUE, pre |-> map.base, loc |-> next_location(kind, map)]
    /\ pc' = "located"
    /\ UNCHANGED <<kind, map, orig, stack, ret, runs, nc>>
    /\ UNCHANGED <<gameVars, treeVars, bfVars>>

NextSudoku == Run \/ Solve \/ CallNextCandidate \/ CallNextLocation

SpecSudoku == InitSudoku /\ [][NextSudoku]_vars

\* ------------------------------------------------- Sudoku rules (reference)

\* Two distinct cells that may not hold the same value: any two cells of a
\* 1-D array; two cells of a grid in one row, one column or one box.
Peers(k, m, i) ==
    IF k = "1D" THEN {j \in DOMAIN m.base : j # i}
    ELSE {j \in DOMAIN m.base :
            /\ j # i
            /\ \/ j \div m.width = i \div m.width
               \/ j % m.width = i % m.width
               \/ /\ (j \div m.width) \div BoxSide = (i \div m.width) \div BoxSide
                  /\ (j % m.width) \div BoxSide = (i % m.width) \div BoxSide}

WithBase(m, b) == [m EXCEPT !.base = b]

\* No value is repeated among the non-empty cells of a unit.
Consistent(k, m) ==
    \A i \in DOMAIN m.base :
        m.base[i] # 0 => \A j \in Peers(k, m, i) : m.base[j] # m.base[i]

Complete(m) == \A i \in DOMAIN m.base : m.base[i] \in 1..MaxVal

RECURSIVE Completable(_, _)
Completable(k, m) ==
    LET zeros == {i \in DOMAIN m.base : m.base[i] = 0}
    IN  IF zeros = {} THEN TRUE
        ELSE LET i == Min(zeros)
             IN  \E v \in 1..MaxVal :
                    /\ \A j \in Peers(k, m, i) : m.base[j] # v
                    /\ Completable(k, [m EXCEPT !.base[i] = v])

\* The map has a valid completion.
Solvable(k, m) ==
    /\ \A i \in DOMAIN m.base : m.base[i] \in 0..MaxVal
    /\ Consistent(k, m)
    /\ Completable(k, m)

OrigMap == WithBase(map, orig)

\* ------------------------------------------------------------------ claims

\* C1: on a map with no valid completion run() terminates: once the search
\* is exhausted (the stack is empty again after a call of solve()), the
\* call has returned false, run() has left its loop, and the first empty
\* location has no candidate left. In particular a run never finds itself,
\* still in its loop, back in the state it started from.
C1_TerminatesOnUnsolvable ==
    (/\ runs = 1
     /\ nc.called
     /\ ~Solvable(kind, OrigMap)
     /\ stack = <<>>
     /\ ~notFound(next_location(kind, map)))
        => /\ pc = "returned"
           /\ ret = FALSE
           /\ next_candidate(kind, map, next_location(kind, map)).val = 0

\* C2: on a solvable map, when run() has returned no cell is 0, every
\* cell is in 1..9, every cell that was filled holds its value, and no value
\* is repeated within a row, column or box (2-D) or within the array (1-D).
C2_SolvedState ==
    (pc = "returned" /\ Solvable(kind, OrigMap)) =>
        /\ Complete(map)
        /\ Consistent(kind, map)
        /\ \A i \in DOMAIN orig : orig[i] # 0 => map.base[i] = orig[i]

\* The cells that were empty, in scan order.
OrigEmpties == {i \in DOMAIN orig : orig[i] = 0}

\* The position of the search among the partial assignments, as a number in
\* base MaxVal + 2 with one digit per cell that was empty, the first cell
\* the most significant: a cell up to the top of the stack counts its value;
\* a cell beyond the top counts MaxVal + 1 when the top holds a value (its
\* subtree is finished) and 0 when the top is still empty.
RECURSIVE RankFrom(_, _, _, _)
RankFrom(b, stk, S, acc) ==
    IF S = {} THEN acc
    ELSE LET e   == Min(S)
             top == stk[Len(stk)].index
             d   == IF e <= top THEN b[e]
                    ELSE IF b[top] # 0 THEN MaxVal + 1 ELSE 0
         IN  RankFrom(b, stk, S \ {e}, acc * (MaxVal + 2) + d)

Rank == IF stack = <<>> THEN 0 ELSE RankFrom(map.base, stack, OrigEmpties, 0)

\* A call of solve() in the first run on a solvable map either ends the run
\* or moves the search strictly forward; Rank is bounded, so run() returns.
C2_Progress ==
    (pc = "running" /\ runs = 1 /\ Solvable(kind, OrigMap)) =>
        (pc' = "returned" \/ Rank' > Rank)

\* C2: for every solvable map run() terminates, and it terminates in a
\* solved state.
C2_BacktrackingCorrect == [](C2_SolvedState) /\ [][C2_Progress]_vars

\* A solved grid in which the first empty cell does not hold its first
\* candidate: the solver came back to that cell at least once.
C2_Witness ==
    /\ kind = "2D"
    /\ pc = "returned"
    /\ Solvable(kind, OrigMap)
    /\ LET loc == next_location(kind, OrigMap)
       IN  /\ ~notFound(loc)
           /\ map.base[loc.index] # next_candidate(kind, OrigMap, loc).val

\* ------------------------------------------ Tic-Tac-Toe rules (reference)

Lines ==
    {{0, 1, 2}, {3, 4, 5}, {6, 7, 8}, {0, 3, 6}, {1, 4, 7}, {2, 5, 8},
     {0, 4, 8}, {2, 4, 6}}

HasLine(g, c) == \E l \in Lines : \A i \in l : g[i] = c

OpenSquares(g) == {i \in Squares : g[i] = Blank}

\* The k-th empty square in ascending order, k = 1, 2, ...
KthOpen(g, k) ==
    CHOOSE i \in OpenSquares(g) :
        Cardinality({j \in OpenSquares(g) : j < i}) = k - 1

GameOver(g) == HasLine(g, X) \/ HasLine(g, O) \/ OpenSquares(g) = {}

\* who can force a line of three from g with toMove to move.
RECURSIVE CanForceWin(_, _, _)
CanForceWin(who, g, toMove) ==
    IF HasLine(g, who) THEN TRUE
    ELSE IF HasLine(g, Other(who)) \/ OpenSquares(g) = {} THEN FALSE
    ELSE IF toMove = who
    THEN \E i \in OpenSquares(g) :
            CanForceWin(who, [g EXCEPT ![i] = toMove], Other(toMove))
    ELSE \A i \in OpenSquares(g) :
            CanForceWin(who, [g EXCEPT ![i] = toMove], Other(toMove))

GameValue(g, toMove, mx) ==
    IF CanForceWin(mx, g, toMove) THEN 10
    ELSE IF CanForceWin(Other(mx), g, toMove) THEN -10
    ELSE 0

SetMax(S) == CHOOSE x \in S : \A y \in S : x >= y

ChildScores(m) == {m.next[k].score : k \in 1..Len(m.next)}

\* C3: in every position of a game, the score of the root minimax returns is
\* the value of the position under best play of both sides: +10 when the
\* maximizer can force a win, -10 when the minimizer can, 0 otherwise.
C3_MinimaxOptimal ==
    (inGame /\ mm # NoMove) => mm.score = GameValue(grid, player, maximizer)

\* A position the minimizer, to move, wins although the maximizer could
\* still complete a line on the next move.
C3_Witness ==
    /\ inGame
    /\ mm # NoMove
    /\ player = minimizer
    /\ mm.score = -10
    /\ Len(mm.next) >= 3
    /\ \E k \in 1..Len(mm.next) : mm.next[k].score = 10

\* C4: called with alpha = INT_MIN and beta = INT_MAX, alpha-beta returns a
\* root with the score of the root minimax returns on the same arguments.
C4_AlphaBetaEquivalent ==
    (ab # NoMove /\ alpha = INT_MIN /\ beta = INT_MAX) => ab.score = mm.score

\* A root call under which a branch was pruned.
C4_Witness ==
    /\ ab # NoMove
    /\ alpha = INT_MIN
    /\ beta = INT_MAX
    /\ ab.score = mm.score
    /\ \E k \in 1..Len(ab.next) : ab.next[k].score # mm.next[k].score

\* C5: a node alpha-beta expanded (a call on a grid that is not over) has one
\* child per empty square of its grid, in the order and with the spot
\* indices of the children of the minimax node of the same grid.
C5_TreeShape ==
    (ab # NoMove /\ ~GameOver(grid)) =>
        /\ Len(ab.next) = Cardinality(OpenSquares(grid))
        /\ Len(ab.next) = Len(mm.next)
        /\ \A k \in 1..Len(ab.next) :
              /\ ab.next[k].spotIndex = KthOpen(grid, k)
              /\ ab.next[k].spotIndex = mm.next[k].spotIndex

\* An expanded node with a pruned branch before its last child.
C5_Witness ==
    /\ ab # NoMove
    /\ Len(ab.next) >= 3
    /\ ~ab.next[Len(ab.next) - 1].args.recursed
    /\ ~ab.next[Len(ab.next)].args.recursed

\* alpha (maximizer's ply) or beta (minimizer's ply) after the first j
\* children of the node were evaluated.
BoundAfter(j) ==
    IF player = maximizer
    THEN SetMax({alpha} \cup {ab.next[i].score : i \in 1..j})
    ELSE Min({beta} \cup {ab.next[i].score : i \in 1..j})

\* alpha >= beta holds after the j-th child was evaluated.
CutAfter(j) ==
    IF player = maximizer THEN BoundAfter(j) >= beta ELSE alpha >= BoundAfter(j)

\* C6: once alpha >= beta holds after a child was evaluated, no later
\* sibling is recursed into: each is a leaf without children, its score the
\* alpha (maximizer's ply) or beta (minimizer's ply) of that moment, its grid
\* the parent's grid with the sibling's move made.
C6_PruningPlaceholders ==
    ab # NoMove =>
        \A k \in 1..Len(ab.next) :
            LET cuts == {j \in 1..(k - 1) : CutAfter(j)}
            IN  cuts # {} =>
                   /\ ~ab.next[k].args.recursed
                   /\ ab.next[k].size = 0
                   /\ ab.next[k].score = BoundAfter(Min(cuts))
                   /\ ab.next[k].grid = [grid EXCEPT ![KthOpen(grid, k)] = player]

\* A minimizer's node, entered with a window narrowed above, that cut off
\* after its second child or later.
C6_Witness ==
    /\ ab # NoMove
    /\ player = minimizer
    /\ alpha # INT_MIN
    /\ Len(ab.next) >= 3
    /\ ~CutAfter(1)
    /\ CutAfter(Len(ab.next) - 1)
    /\ ~ab.next[Len(ab.next)].args.recursed

\* C7: a minimax node that is not terminal has the largest of its children's
\* scores when the maximizer is to move and the smallest otherwise, and
\* bestMove is the first child with that score.
C7_ScoreAndTieBreak ==
    (mm # NoMove /\ ~GameOver(grid)) =>
        /\ mm.score = (IF player = maximizer THEN SetMax(ChildScores(mm))
                       ELSE Min(ChildScores(mm)))
        /\ mm.bestMove + 1 = Min({k \in 1..Len(mm.next) : mm.next[k].score = mm.score})

\* A node whose best score is reached by two children, the first of them not
\* the first child.
C7_Witness ==
    /\ mm # NoMove
    /\ mm.bestMove >= 1
    /\ Cardinality({k \in 1..Len(mm.next) : mm.next[k].score = mm.score}) >= 2

IsTerminalMove(m, score) == m.score = score /\ m.next = <<>> /\ m.bestMove = -1

TerminalTest(m) ==
    IF HasLine(grid, maximizer) THEN IsTerminalMove(m, 10)
    ELSE IF HasLine(grid, minimizer) THEN IsTerminalMove(m, -10)
    ELSE OpenSquares(grid) = {} => IsTerminalMove(m, 0)

\* C8: in both searches a grid with a line of the maximizer gives a node of
\* score +10, otherwise one with a line of the minimizer -10, otherwise one
\* without an empty square 0; such a node has no children and bestMove -1.
C8_TerminalTest ==
    /\ mm # NoMove => TerminalTest(mm)
    /\ ab # NoMove => TerminalTest(ab)

\* A full grid with a line, and a grid with a line of both marks.
C8_Witness ==
    /\ ab # NoMove
    /\ HasLine(grid, maximizer)
    /\ HasLine(grid, minimizer)
    /\ mm.score = 10
    /\ ab.score = 10

C8_WitnessFull ==
    /\ ab # NoMove
    /\ inGame
    /\ OpenSquares(grid) = {}
    /\ HasLine(grid, minimizer)
    /\ ab.score = -10

\* C9: the k-th child of a minimax node that is not terminal holds the
\* parent's grid with the k-th empty square (ascending) set to the mark of
\* the player to move and nothing else changed; that square is the child's
\* spot index; the child was evaluated with the opponent to move; and the
\* parent holds the grid it was called with.
C9_StatesCopied ==
    mm # NoMove =>
        /\ mm.grid = grid
        /\ ~GameOver(grid) =>
              /\ Len(mm.next) = Cardinality(OpenSquares(grid))
              /\ \A k \in 1..Len(mm.next) :
                    /\ mm.next[k].grid = [grid EXCEPT ![KthOpen(grid, k)] = player]
                    /\ mm.next[k].spotIndex = KthOpen(grid, k)
                    /\ mm.next[k].args.player = Other(player)

\* A node of the minimizer with several children, the grid not empty before.
C9_Witness ==
    /\ mm # NoMove
    /\ player = minimizer
    /\ Len(mm.next) >= 4
    /\ mm.next[2].grid[KthOpen(grid, 2)] = minimizer
    /\ mm.next[2].grid[KthOpen(grid, 1)] = Blank

\* C10: the 2-D candidate functor, called on a cell holding c, returns the
\* smallest v in c+1..9 that no cell of the cell's row, column or box holds
\* and writes it into the cell; without such a v it returns 0 and writes 0;
\* no other cell changes.
C10_NextCandidate2D ==
    (kind = "2D" /\ nc.called) =>
        LET pre   == WithBase(map, nc.pre)
            c     == nc.pre[nc.index]
            legal == {v \in (c + 1)..MaxVal :
                        \A j \in Peers("2D", pre, nc.index) : nc.pre[j] # v}
        IN  /\ nc.val = (IF legal # {} THEN Min(legal) ELSE 0)
            /\ map.base[nc.index] = nc.val
            /\ \A j \in DOMAIN map.base : j # nc.index => map.base[j] = nc.pre[j]

\* A call on a cell that held a value, which found a larger one.
C10_Witness ==
    /\ kind = "2D"
    /\ nc.called
    /\ nc.pre[nc.index] > 0
    /\ nc.val > nc.pre[nc.index]

\* A call that found nothing although the cell was empty.
C10_WitnessExhausted ==
    /\ kind = "2D"
    /\ nc.called
    /\ nc.pre[nc.index] = 0
    /\ nc.val = 0

\* C11: the 1-D candidate functor, called on a cell holding c, returns the
\* smallest v in c+1..9 that no cell of the array holds and writes it into
\* the cell; without such a v it returns 0 and sets the cell to 0; no other
\* cell changes.
C11_NextCandidate1D ==
    (kind = "1D" /\ nc.called) =>
        LET c    == nc.pre[nc.index]
            free == {v \in (c + 1)..MaxVal :
                       \A j \in DOMAIN nc.pre : nc.pre[j] # v}
        IN  /\ nc.val = (IF free # {} THEN Min(free) ELSE 0)
            /\ map.base[nc.index] = nc.val
            /\ \A j \in DOMAIN map.base : j # nc.index => map.base[j] = nc.pre[j]

\* A call on a cell of a 1-D array that held a value, which skipped a value
\* held elsewhere and found a larger one.
C11_Witness ==
    /\ kind = "1D"
    /\ nc.called
    /\ nc.pre[nc.index] > 0
    /\ nc.val > nc.pre[nc.index] + 1

\* A call on a 1-D array that found nothing and reset a cell that held a value.
C11_WitnessExhausted ==
    /\ kind = "1D"
    /\ nc.called
    /\ nc.pre[nc.index] \in 1..(MaxVal - 1)
    /\ nc.val = 0
    /\ map.base[nc.index] = 0

\* C12: both location functors return the location of the cell of lowest
\* index that holds 0 (for a grid that is the first in row-major order),
\* return the not-found location exactly when no cell holds 0, and leave the
\* map as it was.
C12_NextLocation ==
    nl.called =>
        LET zeros == {i \in DOMAIN nl.pre : nl.pre[i] = 0}
        IN  /\ notFound(nl.loc) <=> zeros = {}
            /\ zeros # {} =>
                  /\ getIndex(nl.loc) \in zeros
                  /\ \A z \in zeros : getIndex(nl.loc) <= z
            /\ map.base = nl.pre

\* A grid whose first row is full and that has empty cells in two later rows,
\* the first of them in scan order in a column to the right of the other.
C12_Witness ==
    /\ kind = "2D"
    /\ nl.called
    /\ ~notFound(nl.loc)
    /\ getIndex(nl.loc) >= map.width
    /\ \E z \in DOMAIN nl.pre :
          /\ nl.pre[z] = 0
          /\ z > getIndex(nl.loc)
          /\ z % map.width < getIndex(nl.loc) % map.width

\* A 1-D array without an empty cell: nothing found.
C12_WitnessNotFound ==
    /\ kind = "1D"
    /\ nl.called
    /\ notFound(nl.loc)
    /\ pc = "located"


\* The indices of the locations on the stack.
OnStack == {stack[j].index : j \in 1..Len(stack)}

\* C13: after every call of solve() each cell that was filled holds its
\* value, and each cell that was empty and is not on the stack holds 0.
C13_FrameInvariant ==
    runs >= 1 =>
        \A i \in DOMAIN orig :
            /\ orig[i] # 0 => map.base[i] = orig[i]
            /\ (orig[i] = 0 /\ i \notin OnStack) => map.base[i] = 0

\* In a run on a solvable grid a cell that held a trial value has just been
\* taken off the stack and emptied, below it a cell still on the stack.
C13_Witness ==
    /\ runs = 1
    /\ pc = "running"
    /\ Solvable(kind, OrigMap)
    /\ nc.called
    /\ nc.val = 0
    /\ nc.pre[nc.index] > 0
    /\ stack # <<>>
    /\ nc.index \notin OnStack

\* The location solve() works on when called in this state.
CurrentLoc == IF stack = <<>> THEN next_location(kind, map) ELSE stack[Len(stack)]

\* This step is a call of solve() that found no candidate for its location.
NoCandidateStep ==
    /\ pc = "running"
    /\ (stack # <<>> \/ ~notFound(next_location(kind, map)))
    /\ nc'.called
    /\ nc'.pre = map.base
    /\ nc'.val = 0

\* The state is the one a call of solve() that found no candidate left.
AfterNoCandidate == pc = "running" /\ runs >= 1 /\ nc.called /\ nc.val = 0

\* C14: a call of solve() that finds no candidate for the top of the stack
\* returns with that cell 0 and that location off the stack; the next call,
\* if the stack is not empty, asks for the next candidate of the location
\* below, and gets nothing or a value above the one that cell holds.
C14_BacktrackStep ==
    [][/\ NoCandidateStep =>
            /\ nc'.index = getIndex(CurrentLoc)
            /\ map'.base[getIndex(CurrentLoc)] = 0
            /\ getIndex(CurrentLoc) \notin {stack'[j].index : j \in 1..Len(stack')}
            /\ stack' = (IF stack = <<>> THEN <<>>
                         ELSE SubSeq(stack, 1, Len(stack) - 1))
            /\ ret' = TRUE
       /\ (AfterNoCandidate /\ stack # <<>>) =>
            /\ nc'.called
            /\ nc'.pre = map.base
            /\ nc'.index = stack[Len(stack)].index
            /\ nc'.val = 0 \/ nc'.val > map.base[stack[Len(stack)].index]
            /\ map'.base[nc'.index] = nc'.val]_vars

\* After a backtrack the cell below was given a value above the one it held.
C14_Witness ==
    /\ runs = 1
    /\ nc.called
    /\ nc.pre[nc.index] > 0
    /\ nc.val > nc.pre[nc.index]
    /\ Len(stack) >= 2

C19_WitnessInconsistent ==
    /\ ret = FALSE
    /\ nc.called
    /\ ~Consistent(kind, OrigMap)
    /\ ~Consistent(kind, map)

\* C20: after every call of solve() the stack holds, bottom to top, the
\* first k cells that were empty, in scan order, for some k >= 0, and every
\* cell on the stack below the top holds a value.
C20_StackPath ==
    \A j \in 1..Len(stack) :
        /\ stack[j].index \in OrigEmpties
        /\ Cardinality({e \in OrigEmpties : e < stack[j].index}) = j - 1
        /\ j < Len(stack) => map.base[stack[j].index] # 0

\* Three cells on the stack, the top one just pushed and still empty, after
\* the search has come back at least once.
C20_Witness ==
    /\ runs = 1
    /\ Len(stack) >= 3
    /\ map.base[stack[Len(stack)].index] = 0
    /\ map.base[stack[1].index] # next_candidate(kind, OrigMap, stack[1]).val

\* The 1-D map [0,0,0] is the solver's input.
ThreeEmpty == kind = "1D" /\ orig = [i \in 0..2 |-> 0]

\* C16: the 1-D solver run on the map [0,0,0] terminates (every call of
\* solve() ends the run or moves the search forward) and leaves [1,2,3], a
\* permutation of {1,2,3}, in the map.
C16_ExampleThreeEmpty ==
    /\ []((ThreeEmpty /\ runs = 1 /\ pc = "returned") =>
             /\ map.base = [i \in 0..2 |-> i + 1]
             /\ {map.base[i] : i \in 0..2} = {1, 2, 3})
    /\ [][(ThreeEmpty /\ runs = 1 /\ pc = "running") =>
             (pc' = "returned" \/ Rank' > Rank)]_vars

\* The run on [0,0,0] has returned.
C16_Witness ==
    /\ ThreeEmpty
    /\ runs = 1
    /\ pc = "returned"
    /\ ret = FALSE
    /\ map.base[2] = 3

\* The four corners and the centre of the grid.
CornersAndCentre == {0, 2, 4, 6, 8}

\* C15: on the empty grid with x the maximizer's mark and x to move minimax
\* returns a root of score 0 with nine children, and the child bestMove
\* refers to is a move on a corner or on the centre.
C15_ExampleEmptyBoard ==
    (grid = EmptyGrid /\ player = X /\ maximizer = X /\ minimizer = O
        /\ mm # NoMove) =>
        /\ mm.score = 0
        /\ Len(mm.next) = 9
        /\ mm.bestMove \in 0..8
        /\ mm.next[mm.bestMove + 1].spotIndex \in CornersAndCentre

\* minimax has returned on the empty grid: every first move draws, and the
\* first child (the corner 0) is the best move.
C15_Witness ==
    /\ grid = EmptyGrid
    /\ mm # NoMove
    /\ mm.bestMove = 0
    /\ mm.next[1].spotIndex = 0
    /\ \A k \in 1..Len(mm.next) : mm.next[k].score = 0

\* The node the last call of at was made on.
AtNode == IF atRes.on = "mm" THEN mm ELSE ab

\* C17: at(i) returns the child at position i when 0 <= i < number of
\* children; for every other i (also every i on a terminal node) it returns
\* the one static node, which has score 0, no children and bestMove -1.
C17_AtOutOfRange ==
    atRes.called =>
        IF atRes.i >= 0 /\ atRes.i < Len(AtNode.next)
        THEN /\ atRes.ref.to = "child"
             /\ atRes.ref.k = atRes.i
             /\ atRes.ref.k + 1 \in DOMAIN AtNode.next
        ELSE /\ atRes.ref.to = "dummy"
             /\ dummy # NoMove
             /\ dummy.score = 0
             /\ dummy.next = <<>>
             /\ dummy.bestMove = -1

\* at called with the number of children as index on a node that has
\* children, after the static node was constructed by an earlier call.
C17_Witness ==
    /\ atRes.called
    /\ atRes.on = "ab"
    /\ Len(ab.next) >= 2
    /\ atRes.i = Len(ab.next)
    /\ atRes.ref.to = "dummy"
    /\ dummy = DefaultMove

\* at called with index 0 on a terminal node.
C17_WitnessTerminal ==
    /\ atRes.called
    /\ GameOver(grid)
    /\ atRes.i = 0
    /\ atRes.ref.to = "dummy"

\* at called with the index of the last child.
C17_WitnessChild ==
    /\ atRes.called
    /\ Len(AtNode.next) >= 2
    /\ atRes.i = Len(AtNode.next) - 1
    /\ atRes.ref.to = "child"


-----------------------------------------------------------------------------
(* Assignment 01: the tree and its stream operators, for Node<std::string>. *)
(* A string and the stream's content are sequences of characters.  A tree   *)
(* is the sequence of its nodes in the order operator>> allocates them: the *)
(* root first, every child before its own children.  A link is the index of *)
(* a node; 0 is nullptr and -1 a node that is not part of the tree.         *)
-----------------------------------------------------------------------------

MaxNodes == 4

\* The values a node stores: the empty string, two plain tokens and a string
\* with a blank inside.
Values == {<<>>, <<"a">>, <<"7">>, <<"b", " ", "c">>}

\* Node(value = T(), parent = nullptr): no children.
Node(value, parent) == [value |-> value, parent |-> parent, children |-> <<>>]

DigitChars == <<"0", "1", "2", "3", "4", "5", "6", "7", "8", "9">>

IsSpace(c) == c = " "

IsDigit(c) == \E d \in 1..Len(DigitChars) : DigitChars[d] = c

DigitValue(c) == (CHOOSE d \in 1..Len(DigitChars) : DigitChars[d] = c) - 1

\* os << n for a size: its decimal digits.
RECURSIVE putInt(_)
putInt(n) ==
    IF n < Len(DigitChars)
    THEN <<DigitChars[n + 1]>>
    ELSE putInt(n \div Len(DigitChars)) \o <<DigitChars[(n % Len(DigitChars)) + 1]>>

\* operator<<: the value, " {", the number of children, " ", every child in
\* order, "} ".
RECURSIVE putNode(_, _)
RECURSIVE putChildren(_, _, _)
putChildren(nodes, kids, i) ==
    IF i > Len(kids)
    THEN <<>>
    ELSE putNode(nodes, kids[i]) \o putChildren(nodes, kids, i + 1)

putNode(nodes, k) ==
    nodes[k].value \o <<" ", "{">> \o putInt(Len(nodes[k].children)) \o <<" ">>
        \o putChildren(nodes, nodes[k].children, 1) \o <<"}", " ">>

\* The stream operator>> reads from: the next position and the fail bit.
Stream(pos, fail) == [pos |-> pos, fail |-> fail]

\* A formatted extraction first skips the white space.
RECURSIVE skipws(_, _)
skipws(txt, pos) ==
    IF pos <= Len(txt) /\ IsSpace(txt[pos]) THEN skipws(txt, pos + 1) ELSE pos

\* Where the run of characters that are no blanks (a string) or that are
\* digits (an int) ends, from pos on.
RECURSIVE tokenEnd(_, _)
tokenEnd(txt, pos) ==
    IF pos <= Len(txt) /\ ~IsSpace(txt[pos]) THEN tokenEnd(txt, pos + 1) ELSE pos

RECURSIVE digitsEnd(_, _)
digitsEnd(txt, pos) ==
    IF pos <= Len(txt) /\ IsDigit(txt[pos]) THEN digitsEnd(txt, pos + 1) ELSE pos

RECURSIVE digitsValue(_, _, _, _)
digitsValue(txt, pos, last, acc) ==
    IF pos >= last
    THEN acc
    ELSE digitsValue(txt, pos + 1, last, acc * Len(DigitChars) + DigitValue(txt[pos]))

\* is >> std::string: nothing on a failed stream; else the characters up to
\* the next blank, and the fail bit with an empty string when there are none.
getString(txt, s, old) ==
    IF s.fail
    THEN [val |-> old, s |-> s]
    ELSE LET from == skipws(txt, s.pos)
             to == tokenEnd(txt, from)
         IN  IF from = to
             THEN [val |-> <<>>, s |-> Stream(from, TRUE)]
             ELSE [val |-> SubSeq(txt, from, to - 1), s |-> Stream(to, FALSE)]

\* is >> char: the next character that is no blank; the variable keeps what it
\* held when there is none or the stream has failed.
getChar(txt, s, old) ==
    IF s.fail
    THEN [val |-> old, s |-> s]
    ELSE LET from == skipws(txt, s.pos)
         IN  IF from > Len(txt)
             THEN [val |-> old, s |-> Stream(from, TRUE)]
             ELSE [val |-> txt[from], s |-> Stream(from + 1, FALSE)]

\* is >> int: the digits that come next; 0 and the fail bit when there are
\* none, the old value on a stream that has failed.
getInt(txt, s, old) ==
    IF s.fail
    THEN [val |-> old, s |-> s]
    ELSE LET from == skipws(txt, s.pos)
             to == digitsEnd(txt, from)
         IN  IF from = to
             THEN [val |-> 0, s |-> Stream(from, TRUE)]
             ELSE [val |-> digitsValue(txt, from, to, 0), s |-> Stream(to, FALSE)]

\* A child that keeps the null parent it was constructed with.
setParent_Null(nodes, child, rhs) == nodes

\* child->parent = &rhs
setParent(nodes, child, rhs) == [nodes EXCEPT ![child].parent = rhs]

\* rhs.children.push_back(child)
addChild(nodes, rhs, child) ==
    [nodes EXCEPT ![rhs].children = Append(@, child)]

\* operator>> into the node rhs of nodes.  junk is what the uninitialised
\* char ch holds when its first extraction fails.
RECURSIVE getNode(_, _, _, _, _)
RECURSIVE getChildren(_, _, _, _, _, _, _)
getChildren(txt, s, nodes, rhs, i, numChildren, junk) ==
    IF i >= numChildren
    THEN [nodes |-> nodes, s |-> s]
    ELSE LET child == Len(nodes) + 1
             r == getNode(txt, s, Append(nodes, Node(<<>>, 0)), child, junk)
             linked == addChild(setParent(r.nodes, child, rhs), rhs, child)
         IN  getChildren(txt, r.s, linked, rhs, i + 1, numChildren, junk)

getNode(txt, s, nodes, rhs, junk) ==
    LET v == getString(txt, s, nodes[rhs].value)
        cleared == [nodes EXCEPT ![rhs] = Node(v.val, 0)]
        open == getChar(txt, v.s, junk)
    IN  IF open.val # "{"
        THEN [nodes |-> cleared, s |-> open.s]
        ELSE LET n == getInt(txt, open.s, 0)
                 kids == getChildren(txt, n.s, cleared, rhs, 0, n.val, junk)
                 close == getChar(txt, kids.s, open.val)
             IN  [nodes |-> kids.nodes, s |-> close.s]

\* The ancestors of node k, k itself included.
RECURSIVE Ancestors(_, _)
Ancestors(parentOf, k) ==
    IF k = 0 THEN {} ELSE {k} \cup Ancestors(parentOf, parentOf[k])

\* The trees of n nodes, numbered root first and every child before its own
\* children: node k + 1 hangs below node k or below one of k's ancestors.
RECURSIVE Shapes(_)
Shapes(n) ==
    IF n = 1
    THEN {<<0>>}
    ELSE {Append(sh, p) : <<sh, p>> \in
            {pair \in Shapes(n - 1) \X (1..(n - 1)) :
                pair[2] \in Ancestors(pair[1], n - 1)}}

ChildrenOf(parentOf, k) ==
    LET kids == {c \in 1..Len(parentOf) : parentOf[c] = k}
        RECURSIVE inOrder(_)
        inOrder(from) ==
            IF \A c \in kids : c < from
            THEN <<>>
            ELSE LET c == CHOOSE x \in kids : x >= from /\ \A y \in kids : y >= from => x <= y
                 IN  <<c>> \o inOrder(c + 1)
    IN  inOrder(1)

\* The tree of a shape and of the values of its nodes, as the Node
\* constructor and the caller's push_back calls build it.
BuildTree(parentOf, valueOf) ==
    [k \in 1..Len(parentOf) |->
        [value |-> valueOf[k], parent |-> parentOf[k],
         children |-> ChildrenOf(parentOf, k)]]

Trees ==
    UNION {{BuildTree(sh, vs) : <<sh, vs>> \in Shapes(n) \X [1..n -> Values]} :
            n \in 1..MaxNodes}

\* The node the tree is read into: a fresh one, or one that has a parent and
\* a child from an earlier use.
Targets == {<<Node(<<>>, 0)>>, <<[value |-> <<"a">>, parent |-> -1, children |-> <<-1>>]>>}

InitTree ==
    /\ SudokuIdle
    /\ GameIdle
    /\ BellmanFordIdle
    /\ tree \in Trees
    /\ text = <<>>
    /\ target \in Targets
    /\ tpc = "built"

\* os << root
Write ==
    /\ tpc = "built"
    /\ text' = putNode(tree, 1)
    /\ tpc' = "written"
    /\ UNCHANGED <<tree, target>>
    /\ UNCHANGED <<sudokuVars, gameVars, bfVars>>

\* is >> target, on a stream that holds what Write put there
Read ==
    /\ tpc = "written"
    /\ \E junk \in {"{", "}", "a"} :
        target' = getNode(text, Stream(1, FALSE), target, 1, junk).nodes
    /\ tpc' = "read"
    /\ UNCHANGED <<tree, text>>
    /\ UNCHANGED <<sudokuVars, gameVars, bfVars>>

NextTree == Write \/ Read

SpecTree == InitTree /\ [][NextTree]_vars

-----------------------------------------------------------------------------
(* C18: the round trip through operator<< and operator>>.                   *)
-----------------------------------------------------------------------------

\* No '{', no '}' and no white space in the value.
PlainValue(v) == \A i \in 1..Len(v) : v[i] \notin {"{", "}", " "}

\* The same values, the same number and order of children at every node, and
\* in b every child's parent link points to the node that lists it, the
\* root's to nullptr.
SameTree(a, b) ==
    /\ Len(a) = Len(b)
    /\ \A k \in 1..Len(a) :
        /\ b[k].value = a[k].value
        /\ b[k].children = a[k].children
        /\ \A i \in 1..Len(b[k].children) : b[b[k].children[i]].parent = k
    /\ b[1].parent = 0

\* C18, as stated: for every tree whose node values contain no '{', '}' or
\* white space, reading back what operator<< wrote yields a tree with the same
\* values, the same children in the same order at every node, and the parent
\* links of the reconstructed tree.  (Violated: an empty value is written as
\* no character at all, and operator>> takes the "{n" that follows for it.)
C18_RoundTripAsStated ==
    (tpc = "read" /\ \A k \in 1..Len(tree) : PlainValue(tree[k].value))
        => SameTree(tree, target)

\* C18, amended: the same for every tree whose node values are non-empty
\* strings without '{', '}' or white space.
C18_RoundTrip ==
    (tpc = "read"
        /\ \A k \in 1..Len(tree) : tree[k].value # <<>> /\ PlainValue(tree[k].value))
        => SameTree(tree, target)

\* A tree with a node of two children and a grandchild, read back into a node
\* that had a parent and a child before.
C18_Witness ==
    /\ tpc = "read"
    /\ \A k \in 1..Len(tree) : tree[k].value # <<>> /\ PlainValue(tree[k].value)
    /\ \E k \in 1..Len(tree) : Len(tree[k].children) >= 2
    /\ \E k \in 1..Len(tree) : tree[k].parent > 1
    /\ \E k, j \in 1..Len(tree) : tree[k].value # tree[j].value
    /\ SameTree(tree, target)

\* The smallest tree that does not come back: one node with the empty value.
C18_WitnessEmptyValue ==
    /\ tpc = "read"
    /\ Len(tree) = 1
    /\ tree[1].value = <<>>
    /\ target[1].value = <<"{", "0">>

-----------------------------------------------------------------------------
(* C21: the solver never breaks a constraint.                               *)
-----------------------------------------------------------------------------

\* C21: if no value is repeated among the filled cells of a row, a column or
\* a box (2-D), of the array (1-D), of the initial map, then after every call
\* of solve() no two distinct filled cells that share a row, a column or a
\* box (2-D), no two distinct filled cells (1-D), hold the same value.
C21_PartialConsistent ==
    (runs >= 1 /\ Consistent(kind, OrigMap)) => Consistent(kind, map)

\* A run on a consistent grid that has come back from a dead end: two trial
\* values are in the grid, the lower cell's above the first one it was given.
C21_Witness ==
    /\ kind = "2D"
    /\ runs = 1
    /\ pc = "running"
    /\ Consistent(kind, OrigMap)
    /\ Len(stack) >= 2
    /\ map.base[stack[1].index] # 0
    /\ map.base[stack[2].index] # 0
    /\ map.base[stack[1].index] # next_candidate(kind, OrigMap, stack[1]).val

\* The same in an array.
C21_Witness1D ==
    /\ kind = "1D"
    /\ runs = 1
    /\ Consistent(kind, OrigMap)
    /\ Cardinality({i \in DOMAIN map.base : orig[i] = 0 /\ map.base[i] # 0}) >= 2


-----------------------------------------------------------------------------
(* C22: the first solution found is the smallest.                           *)
-----------------------------------------------------------------------------

\* The valid completion of m that is smallest when the values of its empty
\* cells are read in scan order: the first empty cell takes the least value
\* that breaks no constraint and leaves the map completable, and so on.
RECURSIVE SmallestCompletion(_, _)
SmallestCompletion(k, m) ==
    LET zeros == {i \in DOMAIN m.base : m.base[i] = 0}
    IN  IF zeros = {} THEN m
        ELSE LET i  == Min(zeros)
                 ok == {v \in 1..MaxVal :
                          /\ \A j \in Peers(k, m, i) : m.base[j] # v
                          /\ Completable(k, [m EXCEPT !.base[i] = v])}
             IN  SmallestCompletion(k, [m EXCEPT !.base[i] = Min(ok)])

\* C22: for every solvable map, the completion run() leaves in the map is
\* the lexicographically smallest valid completion, the values of the cells
\* that were empty read in scan order.
C22_SmallestFirst ==
    (pc = "returned" /\ runs = 1 /\ Solvable(kind, OrigMap)) =>
        map = SmallestCompletion(kind, OrigMap)

\* A run on a solvable grid of several empty cells has returned, and the
\* first empty cell does not hold the first value that fitted it.
C22_Witness ==
    /\ pc = "returned"
    /\ runs = 1
    /\ Solvable(kind, OrigMap)
    /\ Cardinality(OrigEmpties) >= 2
    /\ map.base[Min(OrigEmpties)] #
           next_candidate(kind, OrigMap, Location("base", Min(OrigEmpties))).val
    /\ map = SmallestCompletion(kind, OrigMap)


-----------------------------------------------------------------------------
(* C23: calling the solver again after it has completed the map.            *)
-----------------------------------------------------------------------------

\* solve() has returned false on a map this solver completed, and is called
\* again: run() was entered a second time.
CalledAfterCompletion ==
    /\ pc = "running"
    /\ ret = FALSE
    /\ stack # <<>>
    /\ Complete(map)

\* C23: once solve() has returned false because this solver completed the
\* map, every further call of solve() returns false and leaves every cell of
\* the map as it is.
C23_CompletionStable ==
    [][CalledAfterCompletion => (ret' = FALSE /\ map' = map)]_vars


-----------------------------------------------------------------------------
(* C24: alpha-beta and minimax choose the same move.                        *)
-----------------------------------------------------------------------------

\* C24: called with alpha = INT_MIN and beta = INT_MAX on the arguments
\* minimax was called on, alpha_beta_pruning_all_branches returns a root with
\* the bestMove index of minimax's root.
C24_SameDecision ==
    (ab # NoMove /\ mm # NoMove /\ alpha = INT_MIN /\ beta = INT_MAX) =>
        ab.bestMove = mm.bestMove

\* The best move is not the first one, and below the root alpha-beta has
\* returned a score that is not the score minimax found for that child.
C24_Witness ==
    /\ ab # NoMove
    /\ mm # NoMove
    /\ alpha = INT_MIN
    /\ beta = INT_MAX
    /\ ab.bestMove > 0
    /\ ab.bestMove = mm.bestMove
    /\ \E k \in 1..Len(ab.next) : ab.next[k].score # mm.next[k].score


-----------------------------------------------------------------------------
(* C25: what a score returned under a window says about the true value.     *)
-----------------------------------------------------------------------------

\* C25: in a run started with alpha = INT_MIN and beta = INT_MAX every
\* recursive call is entered with alpha < beta; and for every expanded node,
\* called with the window (alpha, beta), its returned score s and the minimax
\* value v of its board: alpha < s < beta implies s = v, s <= alpha implies
\* v <= s, s >= beta implies v >= s.
C25_BoundSoundness ==
    /\ alpha < beta
    /\ (ab # NoMove /\ mm # NoMove) =>
        /\ (alpha < ab.score /\ ab.score < beta) => ab.score = mm.score
        /\ ab.score <= alpha => mm.score <= ab.score
        /\ ab.score >= beta => mm.score >= ab.score

\* A recursive call whose score is a bound only: outside its window and not
\* the minimax value of its board.
C25_Witness ==
    /\ ab # NoMove
    /\ mm # NoMove
    /\ ab.next # <<>>
    /\ ab.score # mm.score
    /\ (ab.score <= alpha \/ ab.score >= beta)

\* A recursive call under a window narrowed on both sides whose score lies
\* inside the window.
C25_WitnessExact ==
    /\ ab # NoMove
    /\ mm # NoMove
    /\ ab.next # <<>>
    /\ alpha > INT_MIN
    /\ beta < INT_MAX
    /\ alpha < ab.score
    /\ ab.score < beta


-----------------------------------------------------------------------------
(* C26: the best child of a node.                                           *)
-----------------------------------------------------------------------------

\* The node m has children, bestMove is the index of one of them, and that
\* child has the score of m.
BestChildReal(m) ==
    /\ 0 <= m.bestMove
    /\ m.bestMove < Len(m.next)
    /\ m.next[m.bestMove + 1].score = m.score

\* C26: in the trees minimax and alpha_beta_pruning_all_branches return (the
\* latter started with INT_MIN and INT_MAX) every expanded node that is not
\* terminal has 0 <= bestMove < number of children, the child at bestMove
\* has the score of the node, and in the alpha-beta tree that child is no
\* node standing for a pruned branch.
C26_BestChild ==
    /\ (mm # NoMove /\ mm.next # <<>>) => BestChildReal(mm)
    /\ (ab # NoMove /\ ab.next # <<>>) =>
        /\ BestChildReal(ab)
        /\ ab.next[ab.bestMove + 1].args.recursed

\* A node of the alpha-beta tree with pruned branches whose best child is
\* not its first.
C26_Witness ==
    /\ ab # NoMove
    /\ mm # NoMove
    /\ ab.bestMove > 0
    /\ \E k \in 1..Len(ab.next) : ~ab.next[k].args.recursed
    /\ BestChildReal(ab)
    /\ BestChildReal(mm)


-----------------------------------------------------------------------------
(* C27: the scores of the nodes that stand for pruned branches.             *)
-----------------------------------------------------------------------------

Scores == {-10, 0, 10}

\* C27: in a run of alpha_beta_pruning_all_branches started with INT_MIN and
\* INT_MAX the score of every node standing for a pruned branch is the score
\* of its parent, so every node of the tree has a score in {-10, 0, +10};
\* INT_MIN and INT_MAX are no node's score.
C27_PlaceholderScores ==
    ab # NoMove =>
        /\ ab.score \in Scores
        /\ \A k \in 1..Len(ab.next) :
            /\ ab.next[k].score \in Scores
            /\ ~ab.next[k].args.recursed => ab.next[k].score = ab.score

\* A node below the root with a pruned branch, called under a window that
\* still has an infinite side.
C27_Witness ==
    /\ ab # NoMove
    /\ (alpha = INT_MIN \/ beta = INT_MAX)
    /\ \E k \in 1..Len(ab.next) :
        /\ ~ab.next[k].args.recursed
        /\ ab.next[k].score = ab.score
        /\ ab.next[k].score \in Scores


-----------------------------------------------------------------------------
(* Assignment 5: BellmanFord<SIZE>.  The arrays are indexed from 0; an int  *)
(* is a 32-bit two's complement number.  A sum that leaves the range of int *)
(* is undefined: a build either wraps both the comparison and the stored    *)
(* value ("wrap") or compares the exact sum and stores the wrapped value    *)
(* ("wide").                                                                *)
-----------------------------------------------------------------------------

\* The template argument the class is instantiated with.
SIZE == 3

MaxEdges == 3

null == -1

inf == INT_MAX

Nodes == 0..(SIZE - 1)

\* An exact integer, kept as hi * 2^16 + lo with 0 <= lo < 2^16, so that a
\* sum of two ints can be formed whether it fits an int or not.
Half == 2^16

Wide(x) == [hi |-> x \div Half, lo |-> x % Half]

WAdd(a, b) ==
    [hi |-> a.hi + b.hi + ((a.lo + b.lo) \div Half), lo |-> (a.lo + b.lo) % Half]

WLess(a, b) == a.hi < b.hi \/ (a.hi = b.hi /\ a.lo < b.lo)

InInt(a) == ~WLess(a, Wide(INT_MIN)) /\ ~WLess(Wide(INT_MAX), a)

\* The int a sum is stored as: its low 32 bits, two's complement.
wrap(a) ==
    ((((a.hi + (Half \div 2)) % Half) - (Half \div 2)) * Half) + a.lo

Overflows == {"wrap", "wide"}

\* matrix[u * SIZE + v]
weightOf(m, u, v) == m[u * SIZE + v]

\* What "distance[u] + weight < distance[v]" evaluates to.
sumLess(du, weight, dv, ovf) ==
    LET sum == WAdd(Wide(du), Wide(weight))
    IN  IF InInt(sum) \/ ovf = "wide"
        THEN WLess(sum, Wide(dv))
        ELSE wrap(sum) < dv

\* The condition of the if in both loops of run().
relaxable(m, st, u, v, ovf) ==
    /\ weightOf(m, u, v) # inf
    /\ st.distance[u] # inf
    /\ sumLess(st.distance[u], weightOf(m, u, v), st.distance[v], ovf)

\* The body of the innermost loop of the relaxation.
relax(m, st, u, v, ovf) ==
    IF relaxable(m, st, u, v, ovf)
    THEN [distance    |-> [st.distance EXCEPT
                              ![v] = wrap(WAdd(Wide(st.distance[u]),
                                               Wide(weightOf(m, u, v))))],
          predecessor |-> [st.predecessor EXCEPT ![v] = u]]
    ELSE st

\* for u, for v: the pairs in the order of the two loops, p = u * SIZE + v.
RECURSIVE relaxAll(_, _, _, _)
relaxAll(m, st, p, ovf) ==
    IF p >= SIZE * SIZE
    THEN st
    ELSE relaxAll(m, relax(m, st, p \div SIZE, p % SIZE, ovf), p + 1, ovf)

\* for (k = 0; k < SIZE - 1; ++k)
RECURSIVE rounds(_, _, _, _)
rounds(m, st, k, ovf) ==
    IF k >= SIZE - 1 THEN st ELSE rounds(m, relaxAll(m, st, 0, ovf), k + 1, ovf)

\* run(starting): the arrays it leaves and the value it returns.
run(m, start, ovf) ==
    LET init == [distance    |-> [i \in Nodes |-> IF i = start THEN 0 ELSE inf],
                 predecessor |-> [i \in Nodes |-> null]]
        st   == rounds(m, init, 0, ovf)
    IN  [distance    |-> st.distance,
         predecessor |-> st.predecessor,
         ret         |-> ~\E u \in Nodes, v \in Nodes : relaxable(m, st, u, v, ovf)]

\* for (at = target; at != null; at = predecessor[at]) path.push_back(at):
\* the nodes pushed; returns is FALSE when the chain of predecessors never
\* ends.
RECURSIVE chain(_, _, _)
chain(pred, node, acc) ==
    IF node = null THEN [nodes |-> acc, returns |-> TRUE]
    ELSE IF Len(acc) > SIZE THEN [nodes |-> acc, returns |-> FALSE]
    ELSE chain(pred, pred[node], Append(acc, node))

\* std::reverse
reverse(s) == [i \in 1..Len(s) |-> s[Len(s) + 1 - i]]

\* "if (!path.empty() && path.front() == 0) path.erase(path.begin());"
eraseStart(s) == IF s # <<>> /\ s[1] = 0 THEN Tail(s) ELSE s

\* getPath(target)
getPath(dist, pred, to) ==
    IF dist[to] = inf
    THEN [nodes |-> <<>>, returns |-> TRUE]
    ELSE LET c == chain(pred, to, <<>>)
         IN  IF c.returns
             THEN [nodes |-> eraseStart(reverse(c.nodes)), returns |-> TRUE]
             ELSE [nodes |-> <<>>, returns |-> FALSE]

\* The weights of the edges of an input matrix: negative, zero, positive,
\* and the largest int that is not inf.
Weights == {-1, 0, 2, INT_MAX - 1}

\* The cost matrices with at most MaxEdges edges, loops included.
Matrices ==
    UNION {{[p \in 0..(SIZE * SIZE - 1) |-> IF p \in E THEN w[p] ELSE inf] :
               w \in [E -> Weights]} :
           E \in SubsetsUpTo(0..(SIZE * SIZE - 1), MaxEdges)}

InitBellmanFord ==
    /\ SudokuIdle
    /\ GameIdle
    /\ TreeIdle
    /\ matrix \in Matrices
    /\ distance = <<>>
    /\ predecessor = <<>>
    /\ starting = 0
    /\ bfRet = TRUE
    /\ path = [target |-> 0, nodes |-> <<>>, returns |-> TRUE]
    /\ bpc = "built"

\* run(starting)
RunBellmanFord ==
    /\ bpc = "built"
    /\ \E start \in Nodes, ovf \in Overflows :
         LET r == run(matrix, start, ovf)
         IN  /\ distance' = r.distance
             /\ predecessor' = r.predecessor
             /\ bfRet' = r.ret
             /\ starting' = start
    /\ bpc' = "ran"
    /\ UNCHANGED <<matrix, path>>
    /\ UNCHANGED <<sudokuVars, gameVars, treeVars>>

\* getPath(target), after a run
GetPath ==
    /\ bpc = "ran"
    /\ \E to \in Nodes :
         LET r == getPath(distance, predecessor, to)
         IN  path' = [target |-> to, nodes |-> r.nodes, returns |-> r.returns]
    /\ bpc' = "asked"
    /\ UNCHANGED <<matrix, distance, predecessor, starting, bfRet>>
    /\ UNCHANGED <<sudokuVars, gameVars, treeVars>>

NextBellmanFord == RunBellmanFord \/ GetPath

SpecBellmanFord == InitBellmanFord /\ [][NextBellmanFord]_vars

\* ------------------------------------------------ shortest paths (reference)

\* The sequences of distinct nodes of an edge each to the next, from s to t;
\* their costs are exact.
SimplePaths(m, s, t) ==
    {q \in UNION {[1..n -> Nodes] : n \in 1..SIZE} :
        /\ q[1] = s
        /\ q[Len(q)] = t
        /\ \A i, j \in 1..Len(q) : i # j => q[i] # q[j]
        /\ \A i \in 1..(Len(q) - 1) : weightOf(m, q[i], q[i + 1]) # inf}

RECURSIVE CostFrom(_, _, _)
CostFrom(m, q, i) ==
    IF i >= Len(q) THEN Wide(0)
    ELSE WAdd(Wide(weightOf(m, q[i], q[i + 1])), CostFrom(m, q, i + 1))

Cost(m, q) == CostFrom(m, q, 1)

Reachable(m, s, t) == SimplePaths(m, s, t) # {}

MinCost(m, s, t) ==
    LET costs == {Cost(m, q) : q \in SimplePaths(m, s, t)}
    IN  CHOOSE c \in costs : \A d \in costs : ~WLess(d, c)

\* A cycle of negative cost through a node that can be reached from s: a
\* simple path from u to t and an edge from t back to u.
NegativeCycleReachable(m, s) ==
    \E u \in Nodes, t \in Nodes :
        /\ Reachable(m, s, u)
        /\ weightOf(m, t, u) # inf
        /\ \E q \in SimplePaths(m, u, t) :
              WLess(WAdd(Cost(m, q), Wide(weightOf(m, t, u))), Wide(0))

\* All the positive weights of the matrix together stay below inf: no sum
\* run() forms leaves the range of int or reaches inf.
NoOverflow(m) ==
    LET big == {p \in DOMAIN m : m[p] # inf /\ m[p] > 0}
        RECURSIVE Sum(_)
        Sum(S) == IF S = {} THEN Wide(0)
                  ELSE LET p == CHOOSE x \in S : TRUE
                       IN  WAdd(Wide(m[p]), Sum(S \ {p}))
    IN  WLess(Sum(big), Wide(inf))


-----------------------------------------------------------------------------
(* C28: what run() returns and the distances it leaves.                     *)
-----------------------------------------------------------------------------

\* run() returned false exactly if a cycle of negative cost can be reached
\* from the starting node; and if it returned true, distance[v] is the least
\* cost of a path to v for every v that can be reached and inf for the rest.
RunCorrect ==
    /\ bfRet = FALSE <=> NegativeCycleReachable(matrix, starting)
    /\ bfRet =>
        \A v \in Nodes :
            Wide(distance[v]) = IF Reachable(matrix, starting, v)
                                THEN MinCost(matrix, starting, v)
                                ELSE Wide(inf)

\* C28: for every SIZE x SIZE cost matrix (inf = no edge) and starting node,
\* run(starting) returns false if and only if a cycle of negative weight can
\* be reached from the starting node, and when it returns true distance[v]
\* is the minimum path cost from the starting node to v for every reachable
\* v and inf for every unreachable v.
C28_BellmanFordCorrect == bpc # "built" => RunCorrect

\* The same for the matrices whose weights cannot add up to inf or more.
C28_WithoutOverflow == (bpc # "built" /\ NoOverflow(matrix)) => RunCorrect

\* A run that returned true on a graph with an edge of negative weight on
\* the way to a node two edges from the start.
C28_WitnessShortest ==
    /\ bpc = "ran"
    /\ NoOverflow(matrix)
    /\ bfRet
    /\ \E v \in Nodes :
        /\ predecessor[v] \notin {null, starting}
        /\ distance[v] < 0

\* A run that returned false.
C28_WitnessNegativeCycle ==
    /\ bpc = "ran"
    /\ NoOverflow(matrix)
    /\ ~bfRet
    /\ starting # 0


-----------------------------------------------------------------------------
(* C29: the path getPath() returns.                                         *)
-----------------------------------------------------------------------------

\* getPath(target) returned the nodes of a shortest path from the starting
\* node to target, in travel order, without the starting node; nothing if
\* target cannot be reached.
PathCorrect ==
    /\ path.returns
    /\ IF Reachable(matrix, starting, path.target)
       THEN LET full == <<starting>> \o path.nodes
            IN  /\ full \in SimplePaths(matrix, starting, path.target)
                /\ Cost(matrix, full) = MinCost(matrix, starting, path.target)
       ELSE path.nodes = <<>>

\* C29: after run(starting) returned true, for every starting node and every
\* target that can be reached from it, getPath(target) returns the nodes of a
\* shortest path from the starting node to target in travel order, the
\* starting node removed and target last; for a target that cannot be
\* reached it returns the empty sequence.
C29_PathReconstruction == (bpc = "asked" /\ bfRet) => PathCorrect

\* The same for runs from node 0 on matrices whose weights cannot add up to
\* inf or more.
C29_FromNodeZero ==
    (bpc = "asked" /\ bfRet /\ starting = 0 /\ NoOverflow(matrix)) => PathCorrect

\* A path of two edges from node 0.
C29_WitnessFromZero ==
    /\ bpc = "asked"
    /\ bfRet
    /\ starting = 0
    /\ NoOverflow(matrix)
    /\ Len(path.nodes) = 2
    /\ PathCorrect

\* A run from another node: the starting node is still in front.
C29_WitnessStartKept ==
    /\ bpc = "asked"
    /\ bfRet
    /\ starting # 0
    /\ NoOverflow(matrix)
    /\ path.nodes # <<>>
    /\ path.nodes[1] = starting


=============================================================================
